---- MODULE Spec2Model ----
(***************************************************************************)
(* Model of the vulnerability-scan conversation app (main.py, utils.py,    *)
(* constants.py, prompts.py, query_generator.py).  Text is modelled by     *)
(* TLA+ strings, which are                                                 *)
(* sequences of characters: Len, SubSeq and \o act on them as Python's     *)
(* len, slicing and + act on str.                                          *)
(*                                                                         *)
(* One Streamlit interaction (a widget change or a button click) runs the  *)
(* whole script render_ui once, and once more when the script calls        *)
(* st.rerun().  A script run is modelled by the set of contexts it can end *)
(* in; the nondeterminism is the outcome of the external calls (the LLM    *)
(* backends, the pandasai agent).                                          *)
(*                                                                         *)
(* Configuration: render_ui reads config.file.SAMPLE_FILE_NAME (line 223)  *)
(* and config.messages.REQUIRED_PROMPT (line 331), which constants.py does *)
(* not define.  With constants.py as it stands every run of the script     *)
(* ends at line 223 in an AttributeError, before the main layout.  The     *)
(* model takes the configuration to be complete, so that the routing and   *)
(* dispatch code of lines 234-331 is reached.                              *)
(***************************************************************************)
EXTENDS Integers, Sequences, FiniteSets, TLC

VARIABLES
    session,    \* st.session_state
    widgets,    \* the values the user left in the input widgets
    log,        \* the entries written to the log file, oldest first
    passes,     \* the script runs of the last interaction, each with its trace
    call        \* the last direct call of a method, with its result

vars == <<session, widgets, log, passes, call>>

---------------------------------------------------------------------------
(* Bounds of the model *)

\* Interactions are enabled while the log file holds fewer entries than this.
MaxLog == 2

\* Direct calls are enabled while the log file holds fewer entries than this.
MaxCallLog == 2

\* The longest text clean_text is applied to.
MaxTextLen == 3

\* The longest list of secrets sanitize_log_message is applied to.
MaxSecrets == 2

\* The largest max_queries generate_query_suggestions is called with.
MaxQueries == 6

---------------------------------------------------------------------------
(* constants.py *)

NONE == "None"
GPT == "gpt"
LLAMA == "llama3-8b-8192"
MIXTRAL == "mixtral-8x7b-32768"

ModelType == {NONE, GPT, LLAMA, MIXTRAL}

DEFAULT_TIMEOUT == 30

DEFAULT_QUESTIONS ==
    << "How many rows are there?",
       "Display the first 3 record",
       "what are the headers of the file",
       "Display the records related to Cross Side Scripting or XSS?",
       "Show Pie chart by all severity" >>

API_KEY_MISSING == "API key is required"

\* "Unsupported model type: {model}"
INVALID_MODEL(model) == "Unsupported model type: " \o model

\* "Error loading CSV file: {error}"
FILE_LOAD_ERROR(error) == "Error loading CSV file: " \o error

\* "Error generating analysis: {error}"
ANALYSIS_ERROR(error) == "Error generating analysis: " \o error

ANALYSIS_COMPLETE == "Analysis completed successfully"

---------------------------------------------------------------------------
(* Python str operations *)

\* text.find(sub, i): the lowest 1-based index >= i where sub occurs, 0 if none.
RECURSIVE Find(_, _, _)
Find(text, sub, i) ==
    IF i + Len(sub) - 1 > Len(text) THEN 0
    ELSE IF SubSeq(text, i, i + Len(sub) - 1) = sub THEN i
    ELSE Find(text, sub, i + 1)

\* sub in text
StrIn(sub, text) == Find(text, sub, 1) # 0

\* text.replace("", new): new before every character and at the end.
RECURSIVE Interleave(_, _)
Interleave(text, new) ==
    IF text = "" THEN new
    ELSE new \o SubSeq(text, 1, 1) \o Interleave(SubSeq(text, 2, Len(text)), new)

\* text.replace(old, new): non-overlapping occurrences, left to right.
RECURSIVE StrReplace(_, _, _)
StrReplace(text, old, new) ==
    IF old = "" THEN Interleave(text, new)
    ELSE LET i == Find(text, old, 1) IN
         IF i = 0 THEN text
         ELSE SubSeq(text, 1, i - 1) \o new
              \o StrReplace(SubSeq(text, i + Len(old), Len(text)), old, new)

\* sep.join(parts)
RECURSIVE StrJoin(_, _)
StrJoin(sep, parts) ==
    IF parts = <<>> THEN ""
    ELSE IF Len(parts) = 1 THEN parts[1]
    ELSE parts[1] \o sep \o StrJoin(sep, Tail(parts))

---------------------------------------------------------------------------
(* Exceptions and gateways *)

Exc(type, msg) == [type |-> type, msg |-> msg]
NoExc == Exc("none", "")

\* pandasai OpenAI(openai_api_key=api_key): no timeout is passed.
OpenAI(api_key) ==
    [backend |-> "OpenAI", model |-> GPT, api_key |-> api_key, timeout |-> {}]

\* ChatGroq(model=model_type, api_key=api_key, timeout=DEFAULT_TIMEOUT)
ChatGroq(model, api_key, timeout) ==
    [backend |-> "ChatGroq", model |-> model, api_key |-> api_key,
     timeout |-> {timeout}]

NoLlm == [backend |-> "none", model |-> "", api_key |-> "", timeout |-> {}]

\* What a backend call made with credential api_key can raise: one message
\* without the credential and one that echoes it.
BackendErrors(api_key) ==
    { Exc("TimeoutError", "Request timed out"),
      Exc("AuthenticationError", "Invalid API Key: " \o api_key) }

---------------------------------------------------------------------------
(* utils.py *)

\* Characters outside ASCII are written as stand-ins that occur in no other
\* text of the model: no-break space, and the four typographic quotes.
NBSP == "~"
LSQUO == "@"
RSQUO == "#"
LDQUO == "$"
RDQUO == "%"

\* The characters str.split() treats as separators, among those modelled.
Whitespace == {" ", "\t", "\n", "\r", "\f", NBSP}

\* The replacements dict of clean_text, in insertion order.
Replacements ==
    << <<"\n", " ">>, <<"\r", " ">>, <<"\t", " ">>,
       <<"\\n", " ">>, <<"\\r", " ">>, <<"\\t", " ">>,
       <<NBSP, " ">>, <<RSQUO, "'">>, <<LSQUO, "'">>,
       <<LDQUO, "\"">>, <<RDQUO, "\"">> >>

\* for old, new in replacements.items(): text = text.replace(old, new)
RECURSIVE ApplyReplacements(_, _)
ApplyReplacements(text, k) ==
    IF k > Len(Replacements) THEN text
    ELSE ApplyReplacements(
            StrReplace(text, Replacements[k][1], Replacements[k][2]), k + 1)

\* text.split(): the maximal runs of non-whitespace characters, in order.
RECURSIVE SplitFrom(_, _, _)
SplitFrom(text, i, word) ==
    IF i > Len(text) THEN (IF word = "" THEN <<>> ELSE <<word>>)
    ELSE LET c == SubSeq(text, i, i) IN
         IF c \in Whitespace
         THEN (IF word = "" THEN <<>> ELSE <<word>>) \o SplitFrom(text, i + 1, "")
         ELSE SplitFrom(text, i + 1, word \o c)

StrSplit(text) == SplitFrom(text, 1, "")

\* text.strip()
RECURSIVE LStrip(_)
LStrip(text) ==
    IF text # "" /\ SubSeq(text, 1, 1) \in Whitespace
    THEN LStrip(SubSeq(text, 2, Len(text))) ELSE text

RECURSIVE RStrip(_)
RStrip(text) ==
    IF text # "" /\ SubSeq(text, Len(text), Len(text)) \in Whitespace
    THEN RStrip(SubSeq(text, 1, Len(text) - 1)) ELSE text

StrStrip(text) == LStrip(RStrip(text))

\* Variant: runs of spaces are shortened by one replace of two spaces by one,
\* and the ends are left as they are.
clean_text_ReplaceDoubleSpace(text) ==
    StrReplace(ApplyReplacements(text, 1), "  ", " ")

\* Utils.clean_text, for a str argument
clean_text(text) ==
    StrStrip(StrJoin(" ", StrSplit(ApplyReplacements(text, 1))))

REDACTED == "[REDACTED]"

\* Variant: only the first secret of the list is looked for.
sanitize_log_message_FirstSecretOnly(message, sensitive_data) ==
    IF sensitive_data = <<>> THEN message
    ELSE LET data == Head(sensitive_data) IN
         IF data # "" /\ StrIn(data, message)
         THEN StrReplace(message, data, REDACTED) ELSE message

\* Utils.sanitize_log_message, for the list sensitive_data
RECURSIVE sanitize_log_message(_, _)
sanitize_log_message(message, sensitive_data) ==
    IF sensitive_data = <<>> THEN message
    ELSE LET data == Head(sensitive_data) IN
         sanitize_log_message(
            IF data # "" /\ StrIn(data, message)
            THEN StrReplace(message, data, REDACTED) ELSE message,
            Tail(sensitive_data))

---------------------------------------------------------------------------
(* VulnerabilityScanner.initialize_llm *)

GatewayReturned(llm) == [ok |-> TRUE, llm |-> llm, exc |-> NoExc, logged |-> <<>>]
GatewayRaised(exc, logged) == [ok |-> FALSE, llm |-> NoLlm, exc |-> exc, logged |-> logged]

\* Variant: the model is checked before the credential.
ConstructGateway_ModelFirst(model_type, api_key) ==
    IF model_type \notin {GPT, LLAMA, MIXTRAL}
    THEN {GatewayRaised(Exc("ValueError", INVALID_MODEL(model_type)), <<>>)}
    ELSE IF api_key = ""
    THEN {GatewayRaised(Exc("ValueError", API_KEY_MISSING), <<>>)}
    ELSE IF model_type = GPT
    THEN {GatewayReturned(OpenAI(api_key))}
         \cup {GatewayRaised(e, <<>>) : e \in BackendErrors(api_key)}
    ELSE {GatewayReturned(ChatGroq(model_type, api_key, DEFAULT_TIMEOUT))}
         \cup {GatewayRaised(e, <<>>) : e \in BackendErrors(api_key)}

\* The try block: the credential check comes first, then the model.
ConstructGateway(model_type, api_key) ==
    IF api_key = ""
    THEN {GatewayRaised(Exc("ValueError", API_KEY_MISSING), <<>>)}
    ELSE IF model_type = GPT
    THEN {GatewayReturned(OpenAI(api_key))}
         \cup {GatewayRaised(e, <<>>) : e \in BackendErrors(api_key)}
    ELSE IF model_type \in {LLAMA, MIXTRAL}
    THEN {GatewayReturned(ChatGroq(model_type, api_key, DEFAULT_TIMEOUT))}
         \cup {GatewayRaised(e, <<>>) : e \in BackendErrors(api_key)}
    ELSE {GatewayRaised(Exc("ValueError", INVALID_MODEL(model_type)), <<>>)}

\* The except block: the message is logged with the key replaced, and the
\* exception is raised again as it was.
RedactForLog(error_message, api_key) ==
    IF StrIn(api_key, error_message)
    THEN StrReplace(error_message, api_key, REDACTED)
    ELSE error_message

initialize_llm(model_type, api_key) ==
    { IF r.ok THEN r
      ELSE GatewayRaised(r.exc,
              <<"Error initializing LLM: " \o RedactForLog(r.exc.msg, api_key)>>)
      : r \in ConstructGateway(model_type, api_key) }

---------------------------------------------------------------------------
(* Values, datasets and external calls *)

\* A Python value: its type and its text (str(value)).
PyStr(text) == [type |-> "str", text |-> text]
PyValue(type, text) == [type |-> type, text |-> text]

\* isinstance(value, str)
IsStr(value) == value.type = "str"

NoFile == "None"        \* uploaded_file when nothing is uploaded
NoDf == "unset"         \* st.session_state has no attribute df
SAMPLE == "sample/sample.csv"

\* The files a user can upload: one that parses and one that does not.
UploadedFiles == {"scan.csv", "broken.csv"}

\* pd.read_csv on an uploaded file: the error it raises, "" when it parses.
ReadCsvError(file) ==
    IF file = "broken.csv" THEN "No columns to parse from file" ELSE ""

\* pd.DataFrame(): a dataset with no column and no row
EMPTY == "DataFrame()"

\* df.columns of a loaded dataset
Columns(df) ==
    IF df = SAMPLE THEN <<"id", "description", "severity">>
    ELSE IF df = EMPTY THEN <<>>
    ELSE <<"plugin", "synopsis">>

\* A cell is text or a number.
Cell(text) == [type |-> "str", text |-> text, n |-> 0]
IntCell(n) == [type |-> "int", text |-> "", n |-> n]

\* df[column].values.tolist(), in row order
ColumnValues(df, column) ==
    IF df = SAMPLE
    THEN CASE column = "id" -> <<IntCell(1), IntCell(2)>>
           [] column = "description" -> <<Cell("XSS in login"), Cell("SQL injection")>>
           [] OTHER -> <<Cell("High"), Cell("Critical")>>
    ELSE CASE column = "plugin" -> <<IntCell(10107)>>
           [] OTHER -> <<Cell("HTTP Server Type and Version")>>

\* str(cell)
CellStr(cell) == IF cell.type = "str" THEN cell.text ELSE ToString(cell.n)

\* list(map(str, values))
RECURSIVE MapStr(_)
MapStr(values) ==
    IF values = <<>> THEN <<>> ELSE <<CellStr(Head(values))>> \o MapStr(Tail(values))

\* One call made during a script run: its arguments, whether it returned (ok)
\* or raised, and for a completion the text it returned.
Event(op, ok, template, query, file, df, llm, columns, content) ==
    [op |-> op, ok |-> ok, template |-> template, query |-> query, file |-> file,
     df |-> df, llm |-> llm, columns |-> columns, content |-> content,
     answer |-> ""]

\* The result of a method: what it returned or raised (with the exception it
\* caught, if it wrapped one), what it logged and the calls it made.
Returned(value, logged, calls) ==
    [ok |-> TRUE, value |-> value, exc |-> NoExc, cause |-> NoExc,
     logged |-> logged, calls |-> calls]
Raised(exc, cause, logged, calls) ==
    [ok |-> FALSE, value |-> PyStr(""), exc |-> exc, cause |-> cause,
     logged |-> logged, calls |-> calls]

\* The texts the routing prompt can be answered with.
RoutingResponses ==
    { "{\"route\": \"general\"} because it's a greeting",
      "{\"route\": \"pandasaiAgent\"} because it references rows",
      "{\"route\": \"pandasaiAgent\"} because it is not a general question",
      "{\"route\": \"General\"}",
      "gener al",
      "" }

GeneralResponses == {"I am VulnR, ask me about your scans"}

ColumnResponses == {"description", " synopsis\n", "Description"}

SummaryResponses == {"Two findings, one critical"}

\* What SmartDataframe.chat can return.
AgentResponses ==
    { PyStr("There are 2 rows"),
      PyStr("exports/charts/temp_chart.png"),
      PyStr("exports/charts/temp_chart.png saved"),
      PyValue("int", "2"),
      PyValue("list", "['exports/charts/temp_chart.png']") }

\* chain.invoke(bindings) for prompt | llm | StrOutputParser(): the text of
\* the completion, or the error of the backend.
Invoke(llm, template, query, file, columns, content, responses) ==
    LET ev(ok) == Event("complete", ok, template, query, file, "", llm, columns, content) IN
    { Returned(PyStr(t), <<>>, <<[ev(TRUE) EXCEPT !.answer = t]>>) : t \in responses }
    \cup { Raised(e, e, <<>>, <<ev(FALSE)>>) : e \in BackendErrors(llm.api_key) }

---------------------------------------------------------------------------
(* VulnerabilityScanner.router, general_response, get_pandasai_response,   *)
(* load_data, generate_summary                                             *)

\* logger.info(msg, value) with no placeholder in msg: formatting the record
\* fails inside the handler, and no entry is written.
InfoWithArgument(msg, value) == <<>>

\* Variant: a failed completion is swallowed and an empty decision returned.
router_DefaultsOnFailure(llm, user_query, file) ==
    LET ev(ok) == Event("router", ok, "", user_query, file, "", llm, <<>>, "") IN
    { IF r.ok
      THEN Returned(r.value, <<>>, <<ev(TRUE)>> \o r.calls)
      ELSE Returned(PyStr(""), <<"Error getting routing : " \o r.exc.msg>>,
                    <<ev(TRUE)>> \o r.calls)
      : r \in Invoke(llm, "ROUTING_DECISION_PROMPT3", user_query, file, <<>>, "",
                     RoutingResponses) }

router(llm, user_query, file) ==
    LET ev(ok) == Event("router", ok, "", user_query, file, "", llm, <<>>, "") IN
    { IF r.ok
      THEN Returned(r.value,
                    InfoWithArgument("decision_factor == ", r.value),
                    <<ev(TRUE)>> \o r.calls)
      ELSE Raised(Exc("ValueError", ANALYSIS_ERROR(r.exc.msg)), r.exc,
                  <<"Error getting routing : " \o r.exc.msg>>,
                  <<ev(FALSE)>> \o r.calls)
      : r \in Invoke(llm, "ROUTING_DECISION_PROMPT3", user_query, file, <<>>, "",
                     RoutingResponses) }

general_response(llm, query_text) ==
    LET ev(ok) == Event("general_response", ok, "", query_text, "", "", llm, <<>>, "") IN
    { IF r.ok
      THEN Returned(r.value, <<>>, <<ev(TRUE)>> \o r.calls)
      ELSE Raised(Exc("ValueError", ANALYSIS_ERROR(r.exc.msg)), r.exc,
                  <<"Error generating summary: " \o r.exc.msg>>,
                  <<ev(FALSE)>> \o r.calls)
      : r \in Invoke(llm, "SYSTEM_PROMPT", query_text, "", <<>>, "", GeneralResponses) }

get_pandasai_response(df, llm, query_text) ==
    LET ev(ok) == Event("get_pandasai_response", ok, "", query_text, "", df, llm, <<>>, "") IN
    { Returned(v, <<>>, <<ev(TRUE)>>) : v \in AgentResponses }
    \cup { Raised(e, e, <<>>, <<ev(FALSE)>>) : e \in BackendErrors(llm.api_key) }

load_data(uploaded_file) ==
    LET ev(ok) == Event("load_data", ok, "", "", uploaded_file, "", NoLlm, <<>>, "")
        error == ReadCsvError(uploaded_file) IN
    IF error = ""
    THEN {Returned(PyValue("DataFrame", uploaded_file), <<>>, <<ev(TRUE)>>)}
    ELSE {Raised(Exc("ValueError", FILE_LOAD_ERROR(error)),
                 Exc("EmptyDataError", error),
                 <<"Error loading CSV file: " \o error>>, <<ev(FALSE)>>)}

\* The except block of generate_summary
SummaryRaised(e, calls) ==
    Raised(Exc("ValueError", ANALYSIS_ERROR(e.msg)), e,
           <<"Error generating summary: " \o e.msg>>, calls)

\* Variant: the name is used as the column chain returned it.
SummarizeColumn_NotCleaned(llm, df, answer, calls) ==
    LET description_column == answer
        known == \E i \in DOMAIN Columns(df) : Columns(df)[i] = description_column
        content == StrJoin(" ", MapStr(ColumnValues(df, description_column)))
    IN  IF ~known
        THEN {SummaryRaised(Exc("KeyError", "'" \o description_column \o "'"), calls)}
        ELSE { IF r.ok
               THEN Returned(r.value, <<>>, calls \o r.calls)
               ELSE SummaryRaised(r.exc, calls \o r.calls)
               : r \in Invoke(llm, "GENERAL_SUMMARY", "", "", <<>>, content,
                              SummaryResponses) }

\* Variant: a name that is no column is summarized with nothing to read.
SummarizeColumn_UnknownIsEmpty(llm, df, answer, calls) ==
    LET description_column == clean_text(answer)
        known == \E i \in DOMAIN Columns(df) : Columns(df)[i] = description_column
        content == IF known
                   THEN StrJoin(" ", MapStr(ColumnValues(df, description_column)))
                   ELSE ""
    IN  { IF r.ok
          THEN Returned(r.value, <<>>, calls \o r.calls)
          ELSE SummaryRaised(r.exc, calls \o r.calls)
          : r \in Invoke(llm, "GENERAL_SUMMARY", "", "", <<>>, content,
                         SummaryResponses) }

\* After the column chain answered: clean the name, join the column, summarize.
SummarizeColumn(llm, df, answer, calls) ==
    LET description_column == clean_text(answer)
        known == \E i \in DOMAIN Columns(df) : Columns(df)[i] = description_column
        content == StrJoin(" ", MapStr(ColumnValues(df, description_column)))
    IN  IF ~known
        THEN {SummaryRaised(Exc("KeyError", "'" \o description_column \o "'"), calls)}
        ELSE { IF r.ok
               THEN Returned(r.value,
                             InfoWithArgument("description_column == ", description_column),
                             calls \o r.calls)
               ELSE SummaryRaised(r.exc, calls \o r.calls)
               : r \in Invoke(llm, "GENERAL_SUMMARY", "", "", <<>>, content,
                              SummaryResponses) }

generate_summary(llm, df) ==
    LET ev(ok) == Event("generate_summary", ok, "", "", "", df, llm, <<>>, "")
        outcomes ==
            UNION { IF r.ok
                    THEN SummarizeColumn(llm, df, r.value.text, r.calls)
                    ELSE {SummaryRaised(r.exc, r.calls)}
                    : r \in Invoke(llm, "COLUMN_IDENTIFIER", "", "", Columns(df),
                                   "", ColumnResponses) }
    IN  { [r EXCEPT !.calls = <<ev(r.ok)>> \o @] : r \in outcomes }

---------------------------------------------------------------------------
(* query_generator.py *)

\* The backtick is written as a stand-in that occurs in no other text.
BACKTICK == "^"

Digits == {"0", "1", "2", "3", "4", "5", "6", "7", "8", "9"}

\* text.split(sep) for a one-character sep: every piece, the empty ones too.
RECURSIVE SplitOnFrom(_, _, _, _)
SplitOnFrom(text, sep, i, piece) ==
    IF i > Len(text) THEN <<piece>>
    ELSE LET c == SubSeq(text, i, i) IN
         IF c = sep THEN <<piece>> \o SplitOnFrom(text, sep, i + 1, "")
         ELSE SplitOnFrom(text, sep, i + 1, piece \o c)

StrSplitOn(text, sep) == SplitOnFrom(text, sep, 1, "")

\* text.lstrip(chars), text.rstrip(chars)
RECURSIVE LStripChars(_, _)
LStripChars(text, chars) ==
    IF text # "" /\ SubSeq(text, 1, 1) \in chars
    THEN LStripChars(SubSeq(text, 2, Len(text)), chars) ELSE text

RECURSIVE RStripChars(_, _)
RStripChars(text, chars) ==
    IF text # "" /\ SubSeq(text, Len(text), Len(text)) \in chars
    THEN RStripChars(SubSeq(text, 1, Len(text) - 1), chars) ELSE text

\* text.startswith(prefix)
StartsWith(text, prefix) ==
    Len(text) >= Len(prefix) /\ SubSeq(text, 1, Len(prefix)) = prefix

\* text.rfind(sub) for a one-character sub: the highest 1-based index, 0 if none.
RECURSIVE RFindFrom(_, _, _)
RFindFrom(text, sub, i) ==
    IF i < 1 THEN 0
    ELSE IF SubSeq(text, i, i) = sub THEN i
    ELSE RFindFrom(text, sub, i - 1)

RFind(text, sub) == RFindFrom(text, sub, Len(text))

\* seq[:n]
SliceTo(seq, n) ==
    IF n >= 0 THEN SubSeq(seq, 1, IF n < Len(seq) THEN n ELSE Len(seq))
    ELSE SubSeq(seq, 1, IF Len(seq) + n > 0 THEN Len(seq) + n ELSE 0)

\* The result of json.loads: the items of the array, or a JSONDecodeError.
JsonList(items) == [ok |-> TRUE, items |-> items, exc |-> NoExc]
JsonDecodeError ==
    [ok |-> FALSE, items |-> <<>>, exc |-> Exc("JSONDecodeError", "Expecting value")]

\* q.strip() of an item that is not a str
StripAttributeError(q) ==
    [ok |-> FALSE, items |-> <<>>,
     exc |-> Exc("AttributeError",
                 "'" \o q.type \o "' object has no attribute 'strip'")]

\* The elements of a JSON array from the first one on, s being stripped on the
\* left: string literals without escapes, and integers.  Anything else is
\* taken as malformed.
RECURSIVE JsonElements(_)
JsonElements(s) ==
    LET After(item, rest) ==
            IF rest = "" THEN JsonList(<<item>>)
            ELSE IF SubSeq(rest, 1, 1) # "," THEN JsonDecodeError
            ELSE LET more == JsonElements(LStrip(SubSeq(rest, 2, Len(rest)))) IN
                 IF more.ok THEN JsonList(<<item>> \o more.items)
                 ELSE JsonDecodeError
    IN  IF s = "" THEN JsonDecodeError
        ELSE IF SubSeq(s, 1, 1) = "\""
        THEN LET j == Find(s, "\"", 2) IN
             IF j = 0 THEN JsonDecodeError
             ELSE After(PyStr(SubSeq(s, 2, j - 1)),
                        LStrip(SubSeq(s, j + 1, Len(s))))
        ELSE IF SubSeq(s, 1, 1) \in Digits
        THEN LET rest == LStripChars(s, Digits) IN
             After(PyValue("int", SubSeq(s, 1, Len(s) - Len(rest))), LStrip(rest))
        ELSE JsonDecodeError

\* json.loads(json_str), for a json_str cut from "[" to the last "]"
JsonLoads(json_str) ==
    IF Len(json_str) < 2 \/ SubSeq(json_str, 1, 1) # "["
       \/ SubSeq(json_str, Len(json_str), Len(json_str)) # "]"
    THEN JsonDecodeError
    ELSE LET inner == StrStrip(SubSeq(json_str, 2, Len(json_str) - 1)) IN
         IF inner = "" THEN JsonList(<<>>) ELSE JsonElements(inner)

\* [str(q).strip() for q in queries if q.strip()]: q.strip() of an item that
\* is not a str raises AttributeError, which ends the comprehension.
RECURSIVE StrippedQueries(_)
StrippedQueries(queries) ==
    IF queries = <<>> THEN JsonList(<<>>)
    ELSE IF ~IsStr(Head(queries)) THEN StripAttributeError(Head(queries))
    ELSE LET more == StrippedQueries(Tail(queries))
             q == StrStrip(Head(queries).text) IN
         IF ~more.ok THEN more
         ELSE JsonList((IF q # "" THEN <<q>> ELSE <<>>) \o more.items)

\* The characters removed in front of a line: numbering, bullets, quotes.
LeadChars == Digits \cup {".", "-", " ", "\"", "'"}
QuoteChars == {"\"", "'"}

\* The line-by-line extraction
RECURSIVE QueriesOfLines(_)
QueriesOfLines(lines) ==
    IF lines = <<>> THEN <<>>
    ELSE LET line == StrStrip(Head(lines))
             skipped == \/ line = ""
                        \/ StartsWith(line, BACKTICK \o BACKTICK \o BACKTICK)
                        \/ StartsWith(line, "Generated")
                        \/ StartsWith(line, "Queries:")
             clean_line == RStripChars(LStripChars(line, LeadChars), QuoteChars)
         IN  (IF ~skipped /\ clean_line # "" THEN <<clean_line>> ELSE <<>>)
             \o QueriesOfLines(Tail(lines))

\* What _parse_query_response returns and logs
Parsed(queries, logged) == [queries |-> queries, logged |-> logged]

\* QueryGenerator._parse_query_response: the JSON array if the text has one,
\* else the lines; any exception is logged and gives the empty list.
parse_query_response(response) ==
    IF StrIn("[", response) /\ StrIn("]", response)
    THEN LET start_idx == Find(response, "[", 1)
             end_idx == RFind(response, "]")
             queries == JsonLoads(SubSeq(response, start_idx, end_idx))
             stripped == IF queries.ok THEN StrippedQueries(queries.items)
                         ELSE queries
         IN  IF stripped.ok THEN Parsed(stripped.items, <<>>)
             ELSE Parsed(<<>>, <<"Error parsing query response: " \o stripped.exc.msg>>)
    ELSE Parsed(QueriesOfLines(StrSplitOn(StrStrip(response), "\n")), <<>>)

\* df.select_dtypes(include=['number']).columns
NumericColumns(df) ==
    SelectSeq(Columns(df),
              LAMBDA c : \A i \in DOMAIN ColumnValues(df, c) :
                            ColumnValues(df, c)[i].type = "int")

\* QueryGenerator.analyze_csv_schema: of the schema, the part the model keeps.
analyze_csv_schema(df) ==
    [columns |-> Columns(df), numeric_columns |-> NumericColumns(df)]

\* QueryGenerator._get_fallback_queries: max_queries is not passed to it.
get_fallback_queries(df) ==
    LET fallback ==
            << "Show me the first 10 rows of data",
               "What are the basic statistics for numeric columns?",
               "How many rows and columns are in this dataset?" >>
            \o (IF Len(Columns(df)) > 0
                THEN <<"Show unique values in " \o Columns(df)[1]>> ELSE <<>>)
            \o (IF Len(NumericColumns(df)) > 0
                THEN <<"Create a histogram of " \o NumericColumns(df)[1]>> ELSE <<>>)
    IN  SliceTo(fallback, 6)

\* The texts the query-generation prompt can be answered with.
QueryResponses ==
    { "[\"Count findings by severity\", \"List critical findings\", \"Show top plugins\"]",
      "Sure:\n[\"Count findings by severity\" , \" \"]",
      "1. Count findings by severity\n- \"List critical findings\"\nQueries:",
      "[1, 2]",
      "[\"unterminated",
      "" }

\* The result of generate_query_suggestions: the list returned, whether it is
\* the generated one, what was logged and the calls made.
Suggestions(queries, generated, logged, calls) ==
    [queries |-> queries, generated |-> generated, logged |-> logged, calls |-> calls]

\* QueryGenerator.generate_query_suggestions
generate_query_suggestions(llm, df, max_queries) ==
    LET schema_info == analyze_csv_schema(df) IN
    { IF r.ok
      THEN LET parsed == parse_query_response(r.value.text)
               queries == parsed.queries IN
           Suggestions(SliceTo(queries, max_queries), TRUE,
                       parsed.logged
                       \o <<"Generated " \o ToString(Len(queries)) \o " query suggestions">>,
                       r.calls)
      ELSE Suggestions(get_fallback_queries(df), FALSE,
                       <<"Error generating query suggestions: " \o r.exc.msg>>,
                       r.calls)
      : r \in Invoke(llm, "QUERY_GENERATION", "", "", schema_info.columns,
                     ToString(max_queries), QueryResponses) }

---------------------------------------------------------------------------
(* VulnerabilityScanner.render_ui: one run of the script *)

DEMO_API_KEY == "**************************"

\* st.session_state after the three defaults are set
InitialSession ==
    [model_selected |-> NONE, api_key_value |-> "", pill_index |-> "None",
     df |-> NoDf, using_sample |-> "unset"]

InitialWidgets ==
    [model |-> NONE, api_key |-> "", uploaded_file |-> NoFile, query_text |-> ""]

\* What the script shows: st.error, st.image, st.success, message.write, or
\* the exception box Streamlit draws for an exception nothing caught.
Shown(kind, value) == [kind |-> kind, value |-> value]

\* The context of a run: the widget values it reads, what it has built, and
\* the trace of what it called, logged and showed.
StartRun(ss, w, demo, submit, summary_button) ==
    [ss |-> ss, model |-> w.model, api_key |-> w.api_key,
     uploaded_file |-> w.uploaded_file, query_text |-> w.query_text,
     demo |-> demo, submit |-> submit, summary_button |-> summary_button,
     llm |-> NoLlm, df |-> NoDf, route_text |-> "", in_cycle |-> FALSE,
     calls |-> <<>>, logged |-> <<>>, shown |-> <<>>, rendered |-> FALSE,
     exc |-> NoExc, cause |-> NoExc, failed |-> "", end |-> "running"]

\* Continue every context that is still running; keep the others.
Then(S, F(_)) == UNION { IF cx.end = "running" THEN F(cx) ELSE {cx} : cx \in S }

Absorb(cx, r) ==
    [cx EXCEPT !.calls = @ \o r.calls, !.logged = @ \o r.logged]

\* An exception leaves a call made inside the try block.
Raise(cx, r, op) ==
    [Absorb(cx, r) EXCEPT !.exc = r.exc, !.cause = r.cause, !.failed = op,
                          !.end = "raised"]

\* if st.button("Demo Sample"): the sample is read and the script reruns; if
\* it cannot be read the error is logged and shown, and the open() of the
\* download button, outside any try, ends the run.
DemoSampleStage(cx) ==
    IF ~cx.demo THEN {cx}
    ELSE { [cx EXCEPT !.ss = [@ EXCEPT !.df = SAMPLE, !.using_sample = "True",
                                       !.model_selected = LLAMA,
                                       !.api_key_value = DEMO_API_KEY],
                      !.end = "rerun"],
           LET e == Exc("FileNotFoundError",
                        "No such file or directory: 'sample/sample.csv'") IN
           [cx EXCEPT !.logged = Append(@, "Error loading sample file: " \o e.msg),
                      !.shown = @ \o <<Shown("error", PyStr("Error loading sample file")),
                                       Shown("exception", PyStr(e.msg))>>,
                      !.exc = e, !.cause = e, !.failed = "sample",
                      !.end = "crash"] }

\* st.session_state.get('using_sample', True)
UsingSample(ss) == ss.using_sample # "False"

\* Variant: the selected model is not looked at.
GateOpen_NoModelCheck(uploaded_file, ss, api_key, model) ==
    /\ (uploaded_file # NoFile \/ UsingSample(ss))
    /\ api_key # ""

\* (uploaded_file or using_sample) and api_key and model != ModelType.NONE
GateOpen(uploaded_file, ss, api_key, model) ==
    /\ (uploaded_file # NoFile \/ UsingSample(ss))
    /\ api_key # ""
    /\ model # NONE

\* else: st.warning(self.config.messages.REQUIRED_PROMPT)
GateClosedStage(cx) ==
    {[cx EXCEPT !.shown = Append(@, Shown("warning", PyStr("REQUIRED_PROMPT"))),
                !.end = "done"]}

\* self.llm = self.initialize_llm(model, api_key)
InitStage(cx) ==
    LET ev(ok) == Event("initialize_llm", ok, "", "", "", "", NoLlm, <<>>, "") IN
    { IF r.ok
      THEN [cx EXCEPT !.llm = r.llm, !.calls = Append(@, ev(TRUE))]
      ELSE [cx EXCEPT !.calls = Append(@, ev(FALSE)), !.logged = @ \o r.logged,
                      !.exc = r.exc, !.cause = r.exc,
                      !.failed = "initialize_llm", !.end = "raised"]
      : r \in initialize_llm(cx.model, cx.api_key) }

\* Load data from either source
LoadStage(cx) ==
    IF cx.uploaded_file # NoFile
    THEN { IF r.ok
           THEN [Absorb(cx, r) EXCEPT !.df = r.value.text,
                                      !.ss = [@ EXCEPT !.using_sample = "False"]]
           ELSE Raise(cx, r, "load_data")
           : r \in load_data(cx.uploaded_file) }
    ELSE IF cx.ss.df = NoDf
    THEN LET e == Exc("AttributeError",
                      "st.session_state has no attribute \"df\"") IN
         {Raise(cx, Raised(e, e, <<>>, <<>>), "session_state.df")}
    ELSE {[cx EXCEPT !.df = cx.ss.df]}

\* The pills, the query input and the two buttons are drawn; Submit resets
\* the pill selection and reruns the script.
WidgetStage(cx) ==
    IF cx.submit
    THEN {[cx EXCEPT !.rendered = TRUE,
                     !.ss = [@ EXCEPT !.pill_index = "None"], !.end = "rerun"]}
    ELSE {[cx EXCEPT !.rendered = TRUE]}

\* Variant: the token is matched without regard to case.
RouteIsGeneral_IgnoreCase(route) ==
    StrIn("general", route) \/ StrIn("General", route)

\* if "general" in route
RouteIsGeneral(route) == StrIn("general", route)

\* if isinstance(response, str) and ".png" in response
IsImage(response) == IsStr(response) /\ StrIn(".png", response.text)

GeneralBranch(cx) ==
    LET c == [cx EXCEPT !.logged = Append(@, "INSIDE GENERAL ROUTE............\n")] IN
    { IF r.ok
      THEN [Absorb(c, r) EXCEPT !.shown = Append(@, Shown("write", r.value))]
      ELSE Raise(c, r, "general_response")
      : r \in general_response(c.llm, c.query_text) }

\* Variant: the agent is asked the routing text instead of the user's query.
PandasaiBranch_WrongQuery(cx) ==
    LET c == [cx EXCEPT !.logged = Append(@, "INSIDE PANDASAI ROUTE............\n")] IN
    { IF r.ok
      THEN [Absorb(c, r) EXCEPT
               !.shown = @ \o <<Shown("write", r.value)>>
                           \o (IF IsImage(r.value)
                               THEN <<Shown("image", r.value)>> ELSE <<>>)]
      ELSE Raise(c, r, "get_pandasai_response")
      : r \in get_pandasai_response(c.df, c.llm, c.route_text) }

PandasaiBranch(cx) ==
    LET c == [cx EXCEPT !.logged = Append(@, "INSIDE PANDASAI ROUTE............\n")] IN
    { IF r.ok
      THEN [Absorb(c, r) EXCEPT
               !.shown = @ \o <<Shown("write", r.value)>>
                           \o (IF IsImage(r.value)
                               THEN <<Shown("image", r.value)>> ELSE <<>>)]
      ELSE Raise(c, r, "get_pandasai_response")
      : r \in get_pandasai_response(c.df, c.llm, c.query_text) }

\* elif query_text: the router is asked, then one branch is taken
QueryStage(cx) ==
    UNION { IF r.ok
            THEN LET c == [Absorb(cx, r) EXCEPT
                              !.logged = @ \o InfoWithArgument("route_text ========> ", r.value),
                              !.route_text = r.value.text]
                 IN  IF RouteIsGeneral(c.route_text)
                     THEN GeneralBranch(c) ELSE PandasaiBranch(c)
            ELSE {Raise(cx, r, "router")}
            : r \in router(cx.llm, cx.query_text, cx.uploaded_file) }

\* if summary_button
SummaryStage(cx) ==
    { IF r.ok
      THEN [Absorb(cx, r) EXCEPT
               !.shown = @ \o <<Shown("write", r.value),
                                Shown("success", PyStr(ANALYSIS_COMPLETE))>>]
      ELSE Raise(cx, r, "generate_summary")
      : r \in generate_summary(cx.llm, cx.df) }

\* Variant: the query branch is taken whatever the query text.
HandleStage_NoEmptyCheck(cx) ==
    IF cx.summary_button THEN SummaryStage(cx)
    ELSE QueryStage([cx EXCEPT !.in_cycle = TRUE])

\* Variant: the query is handled after the summary, in the same run.
HandleStage_SummaryThenQuery(cx) ==
    IF cx.summary_button
    THEN IF cx.query_text # ""
         THEN Then(SummaryStage(cx), QueryStage) ELSE SummaryStage(cx)
    ELSE IF cx.query_text # "" THEN QueryStage([cx EXCEPT !.in_cycle = TRUE])
    ELSE {cx}

\* Handle interactions
HandleStage(cx) ==
    IF cx.summary_button THEN SummaryStage(cx)
    ELSE IF cx.query_text # "" THEN QueryStage([cx EXCEPT !.in_cycle = TRUE])
    ELSE {cx}

\* except Exception as e: logger.error(f"Application error: {e}"); st.error(e)
ExceptStage(cx) ==
    IF cx.end = "raised"
    THEN [cx EXCEPT !.logged = Append(@, "Application error: " \o cx.exc.msg),
                    !.shown = Append(@, Shown("error", PyStr(cx.exc.msg))),
                    !.end = "done"]
    ELSE IF cx.end = "running" THEN [cx EXCEPT !.end = "done"]
    ELSE cx

\* The body of the try block
TryBlock(cx) ==
    Then(Then(Then(InitStage(cx), LoadStage), WidgetStage), HandleStage)

\* One run of render_ui
render_ui(ss, w, demo, submit, summary_button) ==
    LET AfterGate(cx) ==
            IF GateOpen(cx.uploaded_file, cx.ss, cx.api_key, cx.model)
            THEN TryBlock(cx) ELSE GateClosedStage(cx)
    IN  { ExceptStage(cx) :
            cx \in Then(DemoSampleStage(StartRun(ss, w, demo, submit, summary_button)),
                        AfterGate) }

---------------------------------------------------------------------------
(* Interactions: the script runs that one user action starts *)

\* A widget keeps the user's value until the default it is drawn with
\* changes; then it shows the new default.
RedrawnWidgets(w, before, after) ==
    [w EXCEPT
       !.model = IF after.model_selected # before.model_selected
                 THEN after.model_selected ELSE @,
       !.api_key = IF after.api_key_value # before.api_key_value
                   THEN after.api_key_value ELSE @]

\* The query input loses its text when a run ends without drawing it.
KeptWidgets(w, cx) ==
    IF cx.end \in {"done", "rerun"} /\ ~cx.rendered
    THEN [w EXCEPT !.query_text = ""] ELSE w

\* A run, and the run that st.rerun() starts with every button released.
Interaction(ss, w, demo, submit, summary_button) ==
    UNION { IF first.end = "rerun"
            THEN LET w2 == KeptWidgets(RedrawnWidgets(w, ss, first.ss), first) IN
                 { [session |-> second.ss, widgets |-> KeptWidgets(w2, second),
                    passes |-> <<first, second>>]
                   : second \in render_ui(first.ss, w2, FALSE, FALSE, FALSE) }
            ELSE { [session |-> first.ss, widgets |-> KeptWidgets(w, first),
                    passes |-> <<first>>] }
            : first \in render_ui(ss, w, demo, submit, summary_button) }

\* The entries the runs wrote, in order
RECURSIVE Logged(_)
Logged(runs) ==
    IF runs = <<>> THEN <<>> ELSE Head(runs).logged \o Logged(Tail(runs))

NoCall ==
    [fn |-> "none", model_type |-> "", api_key |-> "",
     result |-> GatewayRaised(NoExc, <<>>)]

\* The user acts on the page: the widgets take the values w and the script runs.
Interact(w, demo, submit, summary_button) ==
    /\ Len(log) < MaxLog
    /\ \E r \in Interaction(session, w, demo, submit, summary_button) :
          /\ session' = r.session
          /\ widgets' = r.widgets
          /\ passes' = r.passes
          /\ log' = log \o Logged(r.passes)
    /\ UNCHANGED call

\* The page as the last run drew it shows the query input and the buttons.
QueryWidgetsDrawn == passes[Len(passes)].rendered

\* The credentials a user types
TypedCredentials == {"", "sk-1"}

\* The texts a user types into the query input
TypedQueries == {"", "Hello, who are you?"}

\* How many of the quick options are tried
MaxPill == 1

---------------------------------------------------------------------------
(* The state machine *)

\* The page is opened: the script runs once with every widget at its default.
Init ==
    /\ log = <<>>
    /\ call = NoCall
    /\ \E r \in Interaction(InitialSession, InitialWidgets, FALSE, FALSE, FALSE) :
          /\ session = r.session
          /\ widgets = r.widgets
          /\ passes = r.passes

SelectModel(m) ==
    /\ m # widgets.model
    /\ Interact([widgets EXCEPT !.model = m], FALSE, FALSE, FALSE)

EnterApiKey(k) ==
    /\ k # widgets.api_key
    /\ Interact([widgets EXCEPT !.api_key = k], FALSE, FALSE, FALSE)

UploadFile(f) ==
    /\ f # widgets.uploaded_file
    /\ Interact([widgets EXCEPT !.uploaded_file = f], FALSE, FALSE, FALSE)

RemoveFile ==
    /\ widgets.uploaded_file # NoFile
    /\ Interact([widgets EXCEPT !.uploaded_file = NoFile], FALSE, FALSE, FALSE)

\* The Demo Sample button is in the sidebar, drawn by every run.
ClickDemoSample ==
    /\ passes # <<>>
    /\ Interact(widgets, TRUE, FALSE, FALSE)

EnterQuery(q) ==
    /\ QueryWidgetsDrawn
    /\ q # widgets.query_text
    /\ Interact([widgets EXCEPT !.query_text = q], FALSE, FALSE, FALSE)

SelectPill(i) ==
    /\ QueryWidgetsDrawn
    /\ DEFAULT_QUESTIONS[i] # widgets.query_text
    /\ Interact([widgets EXCEPT !.query_text = DEFAULT_QUESTIONS[i]],
                FALSE, FALSE, FALSE)

ClickSubmit ==
    /\ QueryWidgetsDrawn
    /\ Interact(widgets, FALSE, TRUE, FALSE)

ClickSummary ==
    /\ QueryWidgetsDrawn
    /\ Interact(widgets, FALSE, FALSE, TRUE)

Next ==
    \/ \E m \in ModelType : SelectModel(m)
    \/ \E k \in TypedCredentials : EnterApiKey(k)
    \/ \E f \in UploadedFiles : UploadFile(f)
    \/ RemoveFile
    \/ ClickDemoSample
    \/ \E q \in TypedQueries : EnterQuery(q)
    \/ \E i \in 1..MaxPill : SelectPill(i)
    \/ ClickSubmit
    \/ ClickSummary

Spec == Init /\ [][Next]_vars

---------------------------------------------------------------------------
(* Direct calls of the methods *)

\* A model identity that is not a ModelType
UNRECOGNIZED == "claude"

CallCredentials == {"", "sk-1", "e", DEMO_API_KEY}

CallInitializeLlm(model_type, api_key) ==
    /\ Len(log) < MaxCallLog
    /\ \E r \in initialize_llm(model_type, api_key) :
          /\ call' = [fn |-> "initialize_llm", model_type |-> model_type,
                      api_key |-> api_key, result |-> r]
          /\ log' = log \o r.logged
    /\ UNCHANGED <<session, widgets, passes>>

NextCall ==
    \E m \in ModelType \cup {UNRECOGNIZED}, k \in CallCredentials :
        CallInitializeLlm(m, k)

SpecCall == Init /\ [][NextCall]_vars

---------------------------------------------------------------------------
(* The helpers and the methods of one request, applied to drawn arguments *)

\* The characters the texts given to clean_text are made of: real newline,
\* carriage return and tab, the backslash and the letters that make their
\* escaped forms, the no-break space, a typographic quote, a space, a letter.
TextAlphabet == {"\n", "\r", "\t", "\\", "n", "t", NBSP, LDQUO, " ", "a"}

\* The texts of at most n characters
RECURSIVE Texts(_)
Texts(n) ==
    IF n = 0 THEN {""}
    ELSE LET shorter == Texts(n - 1) IN
         shorter \cup {s \o c : s \in shorter, c \in TextAlphabet}

\* The messages given to sanitize_log_message
RedactMessages ==
    { "Invalid API Key: sk-1",
      "sk-1 rejected, retry with sk-1",
      "token RED expired",
      "kk[",
      "zzz",
      "Request timed out",
      "" }

\* The secrets: empty, a key, a part of the marker, one that ends as the
\* marker begins, and one that overlaps itself.
RedactSecrets == {"", "sk-1", "RED", "k[", "zz"}

\* The lists of at most n secrets
RECURSIVE SecretLists(_)
SecretLists(n) ==
    IF n = 0 THEN {<<>>}
    ELSE LET shorter == SecretLists(n - 1) IN
         shorter \cup {Append(l, x) : l \in shorter, x \in RedactSecrets}

\* The gateways and the datasets the methods are called with
CallGateways == {OpenAI("sk-1"), ChatGroq(LLAMA, "sk-1", DEFAULT_TIMEOUT)}
CallDatasets == {SAMPLE, "scan.csv", EMPTY}

Pending(fn, args) == [fn |-> fn, args |-> args, done |-> FALSE, result |-> <<>>]

\* A str given as sensitive_data is wrapped into a one-element list first.
PendingCalls ==
    { Pending("clean_text", [text |-> x]) : x \in Texts(MaxTextLen) }
    \cup { Pending("sanitize_log_message", [message |-> m, sensitive_data |-> l])
           : m \in RedactMessages, l \in SecretLists(MaxSecrets) \ {<<>>} }
    \cup { Pending("generate_summary", [llm |-> g, df |-> d])
           : g \in CallGateways, d \in CallDatasets }
    \cup { Pending("generate_query_suggestions",
                   [llm |-> g, df |-> d, max_queries |-> n])
           : g \in CallGateways, d \in CallDatasets, n \in 0..MaxQueries }

InitApply ==
    /\ session = InitialSession
    /\ widgets = InitialWidgets
    /\ passes = <<>>
    /\ log = <<>>
    /\ call \in PendingCalls

ApplyCleanText ==
    /\ call.fn = "clean_text"
    /\ ~call.done
    /\ call' = [call EXCEPT !.done = TRUE, !.result = clean_text(call.args.text)]
    /\ UNCHANGED <<session, widgets, passes, log>>

ApplySanitizeLogMessage ==
    /\ call.fn = "sanitize_log_message"
    /\ ~call.done
    /\ call' = [call EXCEPT
                  !.done = TRUE,
                  !.result = sanitize_log_message(call.args.message,
                                                  call.args.sensitive_data)]
    /\ UNCHANGED <<session, widgets, passes, log>>

ApplyGenerateSummary ==
    /\ call.fn = "generate_summary"
    /\ ~call.done
    /\ \E r \in generate_summary(call.args.llm, call.args.df) :
          /\ call' = [call EXCEPT !.done = TRUE, !.result = r]
          /\ log' = log \o r.logged
    /\ UNCHANGED <<session, widgets, passes>>

ApplyGenerateQuerySuggestions ==
    /\ call.fn = "generate_query_suggestions"
    /\ ~call.done
    /\ \E r \in generate_query_suggestions(call.args.llm, call.args.df,
                                           call.args.max_queries) :
          /\ call' = [call EXCEPT !.done = TRUE, !.result = r]
          /\ log' = log \o r.logged
    /\ UNCHANGED <<session, widgets, passes>>

NextApply ==
    \/ ApplyCleanText
    \/ ApplySanitizeLogMessage
    \/ ApplyGenerateSummary
    \/ ApplyGenerateQuerySuggestions

SpecApply == InitApply /\ [][NextApply]_vars

---------------------------------------------------------------------------
(* Properties *)

\* The script runs of the last interaction
Runs == {passes[i] : i \in DOMAIN passes}

\* The positions in the trace of a run of the calls of op
CallsOf(cx, op) == {i \in DOMAIN cx.calls : cx.calls[i].op = op}

\* The positions of the completion calls made with a template
Completions(cx, template) ==
    {i \in CallsOf(cx, "complete") : cx.calls[i].template = template}

Handlers == {"general_response", "get_pandasai_response"}
HandlerCalls(cx) == {i \in DOMAIN cx.calls : cx.calls[i].op \in Handlers}

\* text[i : i + len(token)] == token for some i
Occurs(token, text) ==
    \E i \in 1..(Len(text) - Len(token) + 1) :
        SubSeq(text, i, i + Len(token) - 1) = token

\* text.endswith(suffix)
EndsWith(text, suffix) ==
    /\ Len(text) >= Len(suffix)
    /\ SubSeq(text, Len(text) - Len(suffix) + 1, Len(text)) = suffix

\* The router returned a decision in this run.
RoutingSucceeded(cx) == \E i \in CallsOf(cx, "router") : cx.calls[i].ok

\* The completion call of the router failed in this run.
RoutingCompletionFailed(cx) ==
    \E i \in Completions(cx, "ROUTING_DECISION_PROMPT3") : ~cx.calls[i].ok

\* The run reached "Handle interactions" and was not cut short by a rerun.
HandlingReached(cx) == cx.rendered /\ cx.end = "done"

\* The dataset a run works on: the upload if there is one, else the session's.
ActiveDataset(cx) ==
    IF cx.uploaded_file # NoFile THEN cx.uploaded_file ELSE cx.ss.df

ErrorsShown(cx) == {i \in DOMAIN cx.shown : cx.shown[i].kind = "error"}

\* C1: when routing succeeds, the general handler is the one invoked exactly
\* when the routing text contains "general" (case-sensitively), and the
\* data-analysis handler in every other case; one of the two always is.
C1_RouteBySubstring ==
    \A cx \in Runs :
        RoutingSucceeded(cx) =>
            /\ (CallsOf(cx, "general_response") # {}
                    <=> Occurs("general", cx.route_text))
            /\ (CallsOf(cx, "get_pandasai_response") # {}
                    <=> ~Occurs("general", cx.route_text))

\* A routing text that has the token only capitalised went to data analysis.
C1_Witness ==
    \E cx \in Runs :
        /\ RoutingSucceeded(cx)
        /\ Occurs("General", cx.route_text)
        /\ ~Occurs("general", cx.route_text)
        /\ CallsOf(cx, "get_pandasai_response") # {}

\* C2: every routing text that contains "pandasaiAgent" is routed to data
\* analysis: the data-analysis handler is invoked, the general one is not.
C2_PandasaiAgentToAnalysis ==
    \A cx \in Runs :
        (RoutingSucceeded(cx) /\ Occurs("pandasaiAgent", cx.route_text)) =>
            /\ CallsOf(cx, "get_pandasai_response") # {}
            /\ CallsOf(cx, "general_response") = {}

\* C3: when the router's completion call fails it is made once and the router
\* once, no route is taken, no handler is invoked, and the run ends by
\* showing an error.
C3_RoutingFailureSurfaces ==
    \A cx \in Runs :
        RoutingCompletionFailed(cx) =>
            /\ Cardinality(Completions(cx, "ROUTING_DECISION_PROMPT3")) = 1
            /\ Cardinality(CallsOf(cx, "router")) = 1
            /\ HandlerCalls(cx) = {}
            /\ CallsOf(cx, "generate_summary") = {}
            /\ \A i \in DOMAIN cx.logged :
                  cx.logged[i] \notin {"INSIDE GENERAL ROUTE............\n",
                                       "INSIDE PANDASAI ROUTE............\n"}
            /\ cx.end = "done"
            /\ cx.shown # <<>>
            /\ cx.shown[Len(cx.shown)].kind = "error"

C3_Witness ==
    \E cx \in Runs :
        /\ RoutingCompletionFailed(cx)
        /\ cx.query_text # ""
        /\ ErrorsShown(cx) # {}

\* C4: a run that handles an empty query with no summary requested makes no
\* router call and no completion call, invokes no handler and raises nothing.
C4_EmptyQueryIsNoOp ==
    \A cx \in Runs :
        (HandlingReached(cx) /\ cx.query_text = "" /\ ~cx.summary_button) =>
            /\ CallsOf(cx, "router") = {}
            /\ CallsOf(cx, "complete") = {}
            /\ HandlerCalls(cx) = {}
            /\ CallsOf(cx, "generate_summary") = {}
            /\ cx.exc = NoExc
            /\ ErrorsShown(cx) = {}

C4_Witness ==
    \E cx \in Runs :
        /\ HandlingReached(cx)
        /\ cx.query_text = ""
        /\ ~cx.summary_button
        /\ CallsOf(cx, "initialize_llm") # {}

\* C5: in a query cycle whose routing succeeds, exactly one handler call is
\* made, after the router call and its completion: general_response with the
\* user's query when the text contains "general", else get_pandasai_response
\* with the active dataset, the gateway of the run and the user's query.
C5_OneHandlerAfterRouter ==
    \A cx \in Runs :
        (cx.in_cycle /\ cx.query_text # "" /\ RoutingSucceeded(cx)) =>
            /\ Cardinality(HandlerCalls(cx)) = 1
            /\ \A h \in HandlerCalls(cx) :
                  /\ \A i \in CallsOf(cx, "router")
                            \cup Completions(cx, "ROUTING_DECISION_PROMPT3") : i < h
                  /\ cx.calls[h].query = cx.query_text
                  /\ IF Occurs("general", cx.route_text)
                     THEN cx.calls[h].op = "general_response"
                     ELSE /\ cx.calls[h].op = "get_pandasai_response"
                          /\ cx.calls[h].df = ActiveDataset(cx)
                          /\ cx.calls[h].df # NoDf
                          /\ cx.calls[h].llm = cx.llm
                          /\ cx.llm # NoLlm

C5_Witness ==
    \E cx \in Runs :
        /\ cx.in_cycle
        /\ RoutingSucceeded(cx)
        /\ \E h \in HandlerCalls(cx) :
              /\ cx.calls[h].op = "get_pandasai_response"
              /\ cx.calls[h].df = SAMPLE
              /\ cx.calls[h].ok

\* C6: a data-analysis result is shown as an image if and only if it is a
\* string that ends in ".png".
C6_ImageIffPngSuffix ==
    \A cx \in Runs :
        \A h \in CallsOf(cx, "get_pandasai_response") :
            cx.calls[h].ok =>
                \A j \in DOMAIN cx.shown :
                    cx.shown[j].kind = "write" =>
                        ((\E k \in DOMAIN cx.shown : cx.shown[k].kind = "image")
                            <=> (IsStr(cx.shown[j].value)
                                 /\ EndsWith(cx.shown[j].value.text, ".png")))

\* The models initialize_llm builds a gateway for
Supported == {GPT, LLAMA, MIXTRAL}

\* C7 as stated: an empty credential fails with the credential-missing error
\* whatever the model; else "None" or an unknown model fails with the
\* unsupported-model error; else a gateway for the model is returned.
C7_ConstructionOutcome ==
    call.fn = "initialize_llm" =>
        IF call.api_key = ""
        THEN ~call.result.ok /\ call.result.exc = Exc("ValueError", API_KEY_MISSING)
        ELSE IF call.model_type \notin Supported
        THEN /\ ~call.result.ok
             /\ call.result.exc = Exc("ValueError", INVALID_MODEL(call.model_type))
        ELSE /\ call.result.ok
             /\ call.result.llm.model = call.model_type
             /\ call.result.llm.api_key = call.api_key

\* C7 amended: as stated, except that with a credential and a supported model
\* the backend's constructor may raise, and then its exception is what
\* initialize_llm raises.
C7_ConstructionOutcomeOrBackendError ==
    call.fn = "initialize_llm" =>
        IF call.api_key = ""
        THEN ~call.result.ok /\ call.result.exc = Exc("ValueError", API_KEY_MISSING)
        ELSE IF call.model_type \notin Supported
        THEN /\ ~call.result.ok
             /\ call.result.exc = Exc("ValueError", INVALID_MODEL(call.model_type))
        ELSE \/ /\ call.result.ok
                /\ call.result.llm.model = call.model_type
                /\ call.result.llm.api_key = call.api_key
             \/ /\ ~call.result.ok
                /\ call.result.exc \in BackendErrors(call.api_key)

\* An empty credential with the model "None": the credential error wins.
C7_Witness ==
    /\ call.fn = "initialize_llm"
    /\ call.api_key = ""
    /\ call.model_type = NONE
    /\ call.result.exc.msg = API_KEY_MISSING

\* C8: a run in which the selected model is "None" or the credential is empty
\* makes no call at all: no gateway is built, and so no router, handler,
\* summary or completion call is made.
C8_GateBlocksCalls ==
    \A cx \in Runs :
        (cx.model = NONE \/ cx.api_key = "") => cx.calls = <<>>

\* The model is "None" while everything else the gate asks for is there.
C8_Witness ==
    \E cx \in Runs :
        /\ cx.model = NONE
        /\ cx.api_key # ""
        /\ cx.uploaded_file # NoFile
        /\ cx.end # "rerun"

\* C9: no entry a run writes to the log contains the run's non-empty
\* credential.
C9_LogHidesCredential ==
    \A cx \in Runs :
        cx.api_key # "" =>
            \A i \in DOMAIN cx.logged : ~Occurs(cx.api_key, cx.logged[i])

\* The operations whose failure C10 is about
Pipelines ==
    {"router", "general_response", "get_pandasai_response", "generate_summary"}

\* C10: when routing, the general response, the data analysis or the summary
\* fails, the message shown does not contain the credential and is not the
\* text of the exception that caused the failure.
C10_ShownErrorIsSanitized ==
    \A cx \in Runs :
        cx.failed \in Pipelines =>
            \A i \in ErrorsShown(cx) :
                /\ ~Occurs(cx.api_key, cx.shown[i].value.text)
                /\ cx.shown[i].value.text # cx.cause.msg

\* The call of fn has been made.
Applied(fn) == call.fn = fn /\ call.done

\* The secrets of the call that are not empty and occur in its message
SecretsInMessage ==
    { call.args.sensitive_data[i] : i \in DOMAIN call.args.sensitive_data }
    \cap { x \in RedactSecrets : x # "" /\ Occurs(x, call.args.message) }

\* secret[:k] == marker[-k:] or secret[-k:] == marker[:k] for some k >= 1, or
\* one of the two is a part of the other.
Overlaps(secret, marker) ==
    \/ Occurs(secret, marker)
    \/ Occurs(marker, secret)
    \/ \E k \in 1..Len(secret) :
          /\ k <= Len(marker)
          /\ \/ SubSeq(secret, 1, k) = SubSeq(marker, Len(marker) - k + 1, Len(marker))
             \/ SubSeq(secret, Len(secret) - k + 1, Len(secret)) = SubSeq(marker, 1, k)

\* C11 as stated: for every message and every non-empty secret that occurs in
\* it, the output of sanitize_log_message does not contain the secret.
C11_RedactedHasNoSecret ==
    Applied("sanitize_log_message") =>
        \A x \in SecretsInMessage : ~Occurs(x, call.result)

\* C11 amended: the same for every such secret that does not overlap the
\* marker "[REDACTED]": it is no part of the marker, does not contain it, and
\* neither begins as the marker ends nor ends as the marker begins.
C11_RedactedHasNoSecretUnlessOverlap ==
    Applied("sanitize_log_message") =>
        \A x \in SecretsInMessage :
            ~Overlaps(x, "[REDACTED]") => ~Occurs(x, call.result)

\* A key that occurs twice in the message was given second in the list, and
\* both occurrences are gone.
C11_Witness ==
    /\ Applied("sanitize_log_message")
    /\ call.args.message = "sk-1 rejected, retry with sk-1"
    /\ call.args.sensitive_data = <<"zz", "sk-1">>
    /\ call.result = "[REDACTED] rejected, retry with [REDACTED]"

\* C12: clean_text is idempotent: cleaning its own output changes nothing.
C12_CleanIsIdempotent ==
    Applied("clean_text") => clean_text(call.result) = call.result

\* A text with an escaped newline was cleaned, and the cleaning changed it.
C12_Witness ==
    /\ Applied("clean_text")
    /\ Occurs("\\n", call.args.text)
    /\ call.result # call.args.text
    /\ call.result # ""

\* The completion calls of the applied method, as positions in its trace
CompletionsMade == {i \in DOMAIN call.result.calls : call.result.calls[i].op = "complete"}

\* The column-identification call returned, and this is its cleaned answer.
ColumnIdentified(name) ==
    \E i \in CompletionsMade :
        /\ call.result.calls[i].template = "COLUMN_IDENTIFIER"
        /\ call.result.calls[i].ok
        /\ clean_text(call.result.calls[i].answer) = name

\* str(value) of every row of a column, joined by single spaces, in row order
JoinedColumn(df, column) ==
    CASE df = SAMPLE /\ column = "id" -> "1 2"
      [] df = SAMPLE /\ column = "description" -> "XSS in login SQL injection"
      [] df = SAMPLE /\ column = "severity" -> "High Critical"
      [] df = "scan.csv" /\ column = "plugin" -> "10107"
      [] df = "scan.csv" /\ column = "synopsis" -> "HTTP Server Type and Version"
      [] OTHER -> "no such column"

\* The column names of the dataset of the call
ColumnNames == {Columns(call.args.df)[i] : i \in DOMAIN Columns(call.args.df)}

\* C13: generate_summary first asks for the description column over the
\* dataset's column names; when the cleaned answer is a column it makes
\* exactly one more completion call, the summary, whose content is that
\* column's values as text joined by single spaces in row order; it makes no
\* other completion call, and what it returns is the summary call's answer.
C13_ColumnThenSummary ==
    Applied("generate_summary") =>
        LET calls == call.result.calls
            first == CHOOSE i \in CompletionsMade : \A j \in CompletionsMade : i <= j
            last == CHOOSE i \in CompletionsMade : \A j \in CompletionsMade : j <= i
        IN  /\ CompletionsMade # {}
            /\ Cardinality(CompletionsMade) <= 2
            /\ calls[first].template = "COLUMN_IDENTIFIER"
            /\ calls[first].columns = Columns(call.args.df)
            /\ calls[first].llm = call.args.llm
            /\ \A name \in ColumnNames :
                  ColumnIdentified(name) =>
                      /\ Cardinality(CompletionsMade) = 2
                      /\ calls[last].template = "GENERAL_SUMMARY"
                      /\ calls[last].llm = call.args.llm
                      /\ calls[last].content = JoinedColumn(call.args.df, name)
                      /\ calls[last].ok =>
                            /\ call.result.ok
                            /\ call.result.value = PyStr(calls[last].answer)

\* The answer " synopsis\n" was cleaned to the column synopsis and the
\* summary was made of that column.
C13_Witness ==
    /\ Applied("generate_summary")
    /\ call.args.df = "scan.csv"
    /\ call.result.ok
    /\ \E i \in CompletionsMade : call.result.calls[i].answer = " synopsis\n"
    /\ \E i \in CompletionsMade :
          call.result.calls[i].content = "HTTP Server Type and Version"

\* C14: when the cleaned answer of the column-identification call is not a
\* column of the dataset, generate_summary raises the analysis error, makes
\* no summary completion call and returns no text.
C14_UnknownColumnFails ==
    Applied("generate_summary") =>
        \A i \in CompletionsMade :
            LET ev == call.result.calls[i] IN
            (ev.template = "COLUMN_IDENTIFIER" /\ ev.ok
                /\ clean_text(ev.answer) \notin ColumnNames) =>
                /\ ~call.result.ok
                /\ call.result.exc.type = "ValueError"
                /\ call.result.exc.msg
                     = "Error generating analysis: '" \o clean_text(ev.answer) \o "'"
                /\ CompletionsMade = {i}
                /\ call.result.value = PyStr("")

\* The answer "Description" names no column of the sample, whose column is
\* description.
C14_Witness ==
    /\ Applied("generate_summary")
    /\ call.args.df = SAMPLE
    /\ \E i \in CompletionsMade : call.result.calls[i].answer = "Description"
    /\ call.result.exc.msg = "Error generating analysis: 'Description'"

\* The calls of the query pipeline and of the summary pipeline in a run
QueryPipelineCalls(cx) ==
    CallsOf(cx, "router") \cup HandlerCalls(cx)
    \cup Completions(cx, "ROUTING_DECISION_PROMPT3")
    \cup Completions(cx, "SYSTEM_PROMPT")

SummaryPipelineCalls(cx) ==
    CallsOf(cx, "generate_summary")
    \cup Completions(cx, "COLUMN_IDENTIFIER")
    \cup Completions(cx, "GENERAL_SUMMARY")

\* C15: in an interaction where the summary is requested no run calls the
\* router, the general-response handler or the data-analysis handler,
\* whatever the query text; and in an interaction where a query is handled
\* no run calls generate_summary.
C15_SummaryAndQueryApart ==
    /\ (\E cx \in Runs : cx.summary_button) =>
            \A cx \in Runs : QueryPipelineCalls(cx) = {}
    /\ (\E cx \in Runs : QueryPipelineCalls(cx) # {}) =>
            \A cx \in Runs : SummaryPipelineCalls(cx) = {}

\* The summary was requested while the query input held a text, and the
\* summary pipeline ran.
C15_Witness ==
    \E cx \in Runs :
        /\ cx.summary_button
        /\ cx.query_text # ""
        /\ Completions(cx, "COLUMN_IDENTIFIER") # {}

\* C16: generate_query_suggestions returns at most max_queries queries, both
\* when the list is the generated one and when it is the fallback one.
C16_AtMostMaxQueries ==
    Applied("generate_query_suggestions") =>
        Len(call.result.queries) <= call.args.max_queries

\* C17: in every query cycle the file bound into the routing prompt is the
\* dataset of the run, the one the data-analysis handler is given, for an
\* upload and for the sample alike.
C17_RoutingFileIsActiveDataset ==
    \A cx \in Runs :
        cx.in_cycle =>
            \A i \in Completions(cx, "ROUTING_DECISION_PROMPT3") :
                /\ cx.calls[i].file # NoFile
                /\ cx.calls[i].file = cx.df

\* C18: every gateway initialize_llm returns, for gpt, llama3-8b-8192 and
\* mixtral-8x7b-32768, is built with the request timeout DEFAULT_TIMEOUT.
C18_GatewayHasTimeout ==
    (call.fn = "initialize_llm" /\ call.result.ok) =>
        call.result.llm.timeout = {30}

\* C19: when initialize_llm fails it logs the error message with every
\* occurrence of the credential replaced by "[REDACTED]", and with an empty
\* credential it logs the error message as it is.
C19_LoggedMessageIsRedacted ==
    (call.fn = "initialize_llm" /\ ~call.result.ok) =>
        call.result.logged =
            << "Error initializing LLM: "
               \o (IF call.api_key = "" THEN call.result.exc.msg
                   ELSE StrReplace(call.result.exc.msg, call.api_key, "[REDACTED]")) >>

====
